---- MODULE Spec2Model ----
(***************************************************************************)
(* Model of the offline PSBT signer of firma (lib/src/offline/sign.rs):    *)
(* PSBTSigner::new, PSBTSigner::sign with its path-deduction pre-pass      *)
(* init_hd_keypath_if_absent and its per-key step sign_input, and the      *)
(* caller start, which prints the result and saves the signed PSBT.        *)
(*                                                                         *)
(* Abstractions.  Hashes and key derivation are ideal (injective): a       *)
(* public key is the pair of the master key it descends from and its       *)
(* derivation path, a script is its innermost template together with the   *)
(* sequence of hash wrappers around it, a signature is the triple of the   *)
(* signing key, the digest's pre-image and the appended flag byte.         *)
(* Option<T> is a set with at most one element; a map is a function.       *)
(***************************************************************************)
EXTENDS Integers, Sequences, FiniteSets, TLC

\* ------------------------------------------------------------------ bounds
\* Largest number of inputs of a PSBT.
MaxInputs == 2
\* SignOptions.total_derivations (default 1000), scaled down.
Derivations == 0
\* Number of consecutive runs of the signer on its own output.
MaxRuns == 2

\* --------------------------------------------------------------- constants
\* SigHashType::All as u32
SigHashAll == 1

Networks == {"bitcoin", "testnet", "regtest"}

\* Option<T>
None == {}
Some(x) == {x}
Unwrap(o) == CHOOSE x \in o : TRUE

\* ------------------------------------------------------------ key material
\* Fingerprint of the signer's master key, and of a cosigner's.
MyFing == "fp_xprv"
OtherFing == "fp_cosigner"

\* xprv.fingerprint(&secp)
Fingerprint(master) == IF master = "xprv" THEN MyFing ELSE OtherFing

\* Public key of xprv.derive_priv(path): derivation is injective.
Derive(master, path) == <<master, path[1], path[2]>>

\* Path m/i/j
PathOf(i, j) == <<i, j>>

\* Keys and paths the bounded inputs are drawn from.
PathIn == PathOf(0, 0)
PathOut == PathOf(0, Derivations + 1)
KeyIn == Derive("xprv", PathIn)
KeyOut == Derive("xprv", PathOut)
KeyCo == Derive("cosigner", PathIn)

\* Order in which a BTreeMap<PublicKey, _> is iterated.
KeyLess(a, b) ==
    \/ a[1] = "xprv" /\ b[1] # "xprv"
    \/ a[1] = b[1] /\ a[2] < b[2]
    \/ a[1] = b[1] /\ a[2] = b[2] /\ a[3] < b[3]

\* ----------------------------------------------------------------- scripts
\* A script: the innermost template (kind, keys) and the hash wrappers
\* applied around it, outermost first.
Script(wrap, kind, keys) == [wrap |-> wrap, kind |-> kind, keys |-> keys]

\* 1-of-n style script pushing the public keys.
Multi(keys) == Script(<<>>, "multi", keys)
\* OP_0 <hash160(key)>
P2wpkh(key) == Script(<<>>, "p2wpkh", {key})
\* OP_DUP OP_HASH160 <hash160(key)> OP_EQUALVERIFY OP_CHECKSIG
P2pkh(key) == Script(<<>>, "p2pkh", {key})

\* Script::to_p2sh, Script::to_v0_p2wsh
to_p2sh(s) == [s EXCEPT !.wrap = <<"p2sh">> \o @]
to_v0_p2wsh(s) == [s EXCEPT !.wrap = <<"p2wsh">> \o @]

is_v0_p2wpkh(s) == s.wrap = <<>> /\ s.kind = "p2wpkh"
is_p2pkh(s) == s.wrap = <<>> /\ s.kind = "p2pkh"

\* to_p2pkh(&script.as_bytes()[2..]): the 20-byte hash of a p2wpkh script
\* wrapped into a p2pkh script.
to_p2pkh(s) == Script(<<>>, "p2pkh", s.keys)

\* extract_pub_keys: the 33-byte public-key pushes of a script.
extract_pub_keys(s) == IF s.wrap = <<>> /\ s.kind = "multi" THEN s.keys ELSE {}

\* ------------------------------------------------------------ PSBT records
\* A map (BTreeMap) is a function; insert replaces the value under the key.
EmptyMap == [k \in {} |-> {}]
Insert(m, k, v) == [x \in DOMAIN m \cup {k} |-> IF x = k THEN v ELSE m[x]]

TxOut(value, script_pubkey) == [value |-> value, script_pubkey |-> script_pubkey]
Tx(txid, output) == [txid |-> txid, output |-> output]
OutPoint(txid, vout) == [txid |-> txid, vout |-> vout]
KeySource(fing, path) == [fing |-> fing, path |-> path]

\* bitcoin::util::psbt::Input, the fields the signer reads or writes.
Input(nw, w, rs, ws, sh, sigs, hd) ==
    [non_witness_utxo |-> nw, witness_utxo |-> w, redeem_script |-> rs,
     witness_script |-> ws, sighash_type |-> sh, partial_sigs |-> sigs,
     hd_keypaths |-> hd]

\* bitcoin::util::psbt::Output
Output(rs, ws, hd) == [redeem_script |-> rs, witness_script |-> ws, hd_keypaths |-> hd]

\* ------------------------------------------------------------- signatures
\* SighashComponents::sighash_all(txin, script, value): the BIP143 digest,
\* always computed for SIGHASH_ALL.
Bip143SighashAll(idx, script, value) ==
    [mode |-> "bip143", index |-> idx, script |-> script, value |-> Some(value),
     hashtype |-> SigHashAll]

\* Transaction::signature_hash(index, script, sighash_u32): the legacy digest.
SignatureHash(idx, script, u32) ==
    [mode |-> "legacy", index |-> idx, script |-> script, value |-> None,
     hashtype |-> u32]

\* secp.sign(msg, key).serialize_der() followed by the pushed flag byte;
\* signing is deterministic (RFC 6979).
Signature(key, hash, flag) == [key |-> key, hash |-> hash, flag |-> flag]

\* The flag byte hard-wired to SIGHASH_ALL.
AsU8AlwaysAll(u32) == SigHashAll

\* sighash.as_u32() as u8
AsU8(u32) == u32 % 256

\* ------------------------------------------------------------ PathDeducer
\* The candidate map `keys` of init_hd_keypath_if_absent: the public key at
\* m/i/j for i in 0..=1 and j in 0..=derivations, with the master
\* fingerprint and the full path.
CandidateKeys(derivations) ==
    [k \in {Derive("xprv", PathOf(i, j)) : i \in 0..1, j \in 0..derivations}
        |-> KeySource(Fingerprint("xprv"), PathOf(k[2], k[3]))]

\* The loop over one record (input or output): every key of its
\* witness_script that is a candidate is inserted, replacing any entry
\* stored under that key.
DeduceRecord(rec, keys) ==
    IF rec.witness_script = None THEN rec
    ELSE LET found == extract_pub_keys(Unwrap(rec.witness_script)) \cap DOMAIN keys
         IN [rec EXCEPT !.hd_keypaths =
                [k \in DOMAIN @ \cup found |-> IF k \in found THEN keys[k] ELSE @[k]]]

\* TRUE iff the loop over the record executes `added = true`.
RecordAdds(rec, keys) ==
    /\ rec.witness_script # None
    /\ extract_pub_keys(Unwrap(rec.witness_script)) \cap DOMAIN keys # {}

\* The condition that starts the deduction.
AnyKeypathsEmpty(p) ==
    \/ \E n \in DOMAIN p.inputs : DOMAIN p.inputs[n].hd_keypaths = {}
    \/ \E n \in DOMAIN p.outputs : DOMAIN p.outputs[n].hd_keypaths = {}

\* init_hd_keypath_if_absent: the PSBT afterwards and the returned flag.
init_hd_keypath_if_absent(p, derivations) ==
    IF ~AnyKeypathsEmpty(p) THEN [psbt |-> p, added |-> FALSE]
    ELSE LET keys == CandidateKeys(derivations)
         IN [psbt |-> [p EXCEPT
                         !.inputs = [n \in DOMAIN @ |-> DeduceRecord(@[n], keys)],
                         !.outputs = [n \in DOMAIN @ |-> DeduceRecord(@[n], keys)]],
             added |-> \/ \E n \in DOMAIN p.inputs : RecordAdds(p.inputs[n], keys)
                       \/ \E n \in DOMAIN p.outputs : RecordAdds(p.outputs[n], keys)]

\* ------------------------------------------------------------- sign_input
\* The message of sign_input's derived-pubkey error.
DerivedMismatchText == "pubkey derived and expected differs even if fingerprint matches!"

\* Outcome of a step: status is "ok", "err" (an Err value is returned) or
\* "panic" (the thread aborts); input and signed_by are the state it leaves;
\* inserted is the set of keys partial_sigs.insert was called with.
Outcome(status, msg, input, signed_by, inserted) ==
    [status |-> status, msg |-> msg, input |-> input, signed_by |-> signed_by,
     inserted |-> inserted]

\* The signature an entry of ours gets, whatever key it is stored under.
SignedEntry(st, pubkey, script, idx) ==
    LET input == st.input
        entry == input.hd_keypaths[pubkey]
        sighash == IF input.sighash_type = None THEN SigHashAll
                   ELSE Unwrap(input.sighash_type)
        hash == IF input.non_witness_utxo = None
                THEN Bip143SighashAll(idx, script, Unwrap(input.witness_utxo).value)
                ELSE SignatureHash(idx, script, sighash)
    IN  [st EXCEPT !.input.partial_sigs =
                      Insert(@, pubkey, Signature(Derive("xprv", entry.path), hash, AsU8(sighash))),
                   !.signed_by = @ \cup {entry.fing},
                   !.inserted = @ \cup {pubkey}]

\* sign_input's loop body without the derived-pubkey comparison.
SignEntryUnguarded(st, pubkey, script, idx) ==
    LET input == st.input
    IN  IF input.hd_keypaths[pubkey].fing # Fingerprint("xprv") THEN st
        ELSE IF input.non_witness_utxo # None /\ input.sighash_type = None
        THEN [st EXCEPT !.status = "err", !.msg = "sighash empty"]
        ELSE SignedEntry(st, pubkey, script, idx)

\* sign_input's loop body without the fingerprint filter.
SignEntryAnyFingerprint(st, pubkey, script, idx) ==
    LET input == st.input
    IN  IF pubkey # Derive("xprv", input.hd_keypaths[pubkey].path)
        THEN [st EXCEPT !.status = "err", !.msg = DerivedMismatchText]
        ELSE IF input.non_witness_utxo # None /\ input.sighash_type = None
        THEN [st EXCEPT !.status = "err", !.msg = "sighash empty"]
        ELSE SignedEntry(st, pubkey, script, idx)

\* sign_input's loop body storing the new signature in a fresh map.
SignEntryFreshMap(st, pubkey, script, idx) ==
    LET input == st.input
        signed == SignedEntry(st, pubkey, script, idx)
    IN  IF input.hd_keypaths[pubkey].fing # Fingerprint("xprv") THEN st
        ELSE IF pubkey # Derive("xprv", input.hd_keypaths[pubkey].path)
        THEN [st EXCEPT !.status = "err", !.msg = DerivedMismatchText]
        ELSE IF input.non_witness_utxo # None /\ input.sighash_type = None
        THEN [st EXCEPT !.status = "err", !.msg = "sighash empty"]
        ELSE [signed EXCEPT !.input.partial_sigs =
                               Insert(EmptyMap, pubkey, signed.input.partial_sigs[pubkey])]

\* The entry signed without recording the fingerprint in signed_by.
SignEntryForgetsSigner(st, pubkey, script, idx) ==
    LET input == st.input
        entry == input.hd_keypaths[pubkey]
        is_witness == input.non_witness_utxo = None
        derived_pubkey == Derive("xprv", entry.path)
        sighash == IF input.sighash_type = None THEN SigHashAll
                   ELSE Unwrap(input.sighash_type)
        hash == IF is_witness
                THEN Bip143SighashAll(idx, script, Unwrap(input.witness_utxo).value)
                ELSE SignatureHash(idx, script, sighash)
        signature == Signature(derived_pubkey, hash, AsU8(sighash))
    IN  IF entry.fing # Fingerprint("xprv") THEN st
        ELSE IF pubkey # derived_pubkey
        THEN [st EXCEPT !.status = "err", !.msg = DerivedMismatchText]
        ELSE IF is_witness /\ input.witness_utxo = None
        THEN [st EXCEPT !.status = "err", !.msg = "witness_utxo is empty"]
        ELSE IF ~is_witness /\ input.sighash_type = None
        THEN [st EXCEPT !.status = "err", !.msg = "sighash empty"]
        ELSE [st EXCEPT !.input.partial_sigs = Insert(@, pubkey, signature),
                        !.inserted = @ \cup {pubkey}]

\* The body of sign_input's loop for one hd_keypaths entry.
SignEntry(st, pubkey, script, idx) ==
    LET input == st.input
        entry == input.hd_keypaths[pubkey]
        is_witness == input.non_witness_utxo = None
        derived_pubkey == Derive("xprv", entry.path)
        sighash == IF input.sighash_type = None THEN SigHashAll
                   ELSE Unwrap(input.sighash_type)
        hash == IF is_witness
                THEN Bip143SighashAll(idx, script, Unwrap(input.witness_utxo).value)
                ELSE SignatureHash(idx, script, sighash)
        signature == Signature(derived_pubkey, hash, AsU8(sighash))
    IN  IF entry.fing # Fingerprint("xprv") THEN st
        ELSE IF pubkey # derived_pubkey
        THEN [st EXCEPT !.status = "err", !.msg = DerivedMismatchText]
        ELSE IF is_witness /\ input.witness_utxo = None
        THEN [st EXCEPT !.status = "err", !.msg = "witness_utxo is empty"]
        ELSE IF ~is_witness /\ input.sighash_type = None
        THEN [st EXCEPT !.status = "err", !.msg = "sighash empty"]
        ELSE [st EXCEPT !.input.partial_sigs = Insert(@, pubkey, signature),
                        !.signed_by = @ \cup {entry.fing},
                        !.inserted = @ \cup {pubkey}]

\* The loop of sign_input over hd_keypaths in key order; `?` leaves it at
\* the first error.
RECURSIVE SignEntries(_, _, _, _)
SignEntries(todo, st, script, idx) ==
    IF todo = {} \/ st.status # "ok" THEN st
    ELSE LET pubkey == CHOOSE k \in todo : \A o \in todo \ {k} : KeyLess(k, o)
         IN SignEntries(todo \ {pubkey}, SignEntry(st, pubkey, script, idx), script, idx)

sign_input(input, signed_by, script, idx) ==
    SignEntries(DOMAIN input.hd_keypaths, Outcome("ok", "", input, signed_by, {}),
                script, idx)

\* ------------------------------------------------------- ScriptClassifier
\* The checks of sign's loop body ahead of sign_input: the script to hash,
\* or the error or panic that ends the call.
Classified(status, msg, script) == [status |-> status, msg |-> msg, script |-> script]
NoScript == Script(<<>>, "none", {})

\* The legacy row hashing the spent scriptPubKey where a redeem script is given.
ClassifyHashesScriptPubkey(input, prevout) ==
    IF input.non_witness_utxo # None
    THEN LET non_witness_utxo == Unwrap(input.non_witness_utxo)
         IN IF non_witness_utxo.txid # prevout.txid
            THEN Classified("err", "prevout doesn't match non_witness_utxo", NoScript)
            ELSE IF prevout.vout >= Len(non_witness_utxo.output)
            THEN Classified("panic", "index out of bounds", NoScript)
            ELSE LET script_pubkey == non_witness_utxo.output[prevout.vout + 1].script_pubkey
                 IN IF input.redeem_script = None
                    THEN Classified("ok", "", script_pubkey)
                    ELSE IF script_pubkey # to_p2sh(Unwrap(input.redeem_script))
                    THEN Classified("err",
                           "script_pubkey does not match the redeem script converted to p2sh",
                           NoScript)
                    ELSE Classified("ok", "", script_pubkey)
    ELSE IF input.witness_utxo = None
    THEN Classified("panic", "both witness_utxo and non_witness_utxo are none", NoScript)
    ELSE LET witness_utxo == Unwrap(input.witness_utxo)
             mismatch == /\ input.redeem_script # None
                         /\ witness_utxo.script_pubkey # to_p2sh(Unwrap(input.redeem_script))
             script == IF input.redeem_script # None THEN Unwrap(input.redeem_script)
                       ELSE witness_utxo.script_pubkey
         IN IF mismatch
            THEN Classified("err",
                   "witness_utxo script_pubkey doesn't match the redeem script converted to p2sh",
                   NoScript)
            ELSE IF is_v0_p2wpkh(script)
            THEN IF ~is_p2pkh(to_p2pkh(script))
                 THEN Classified("err", "it is not a p2pkh script", NoScript)
                 ELSE Classified("ok", "", to_p2pkh(script))
            ELSE IF input.witness_script = None
            THEN Classified("panic", "witness_script is none", NoScript)
            ELSE IF script # to_v0_p2wsh(Unwrap(input.witness_script))
            THEN Classified("err", "script and witness script to v0 p2wsh doesn't match",
                            NoScript)
            ELSE Classified("ok", "", Unwrap(input.witness_script))

\* sign, the script and utxo checks of one input (the body of its loop up to
\* the call of sign_input).
Classify(input, prevout) ==
    IF input.non_witness_utxo # None
    THEN LET non_witness_utxo == Unwrap(input.non_witness_utxo)
         IN IF non_witness_utxo.txid # prevout.txid
            THEN Classified("err", "prevout doesn't match non_witness_utxo", NoScript)
            ELSE IF prevout.vout >= Len(non_witness_utxo.output)
            THEN Classified("panic", "index out of bounds", NoScript)
            ELSE LET script_pubkey == non_witness_utxo.output[prevout.vout + 1].script_pubkey
                 IN IF input.redeem_script = None
                    THEN Classified("ok", "", script_pubkey)
                    ELSE IF script_pubkey # to_p2sh(Unwrap(input.redeem_script))
                    THEN Classified("err",
                           "script_pubkey does not match the redeem script converted to p2sh",
                           NoScript)
                    ELSE Classified("ok", "", Unwrap(input.redeem_script))
    ELSE IF input.witness_utxo = None
    THEN Classified("panic", "both witness_utxo and non_witness_utxo are none", NoScript)
    ELSE LET witness_utxo == Unwrap(input.witness_utxo)
             mismatch == /\ input.redeem_script # None
                         /\ witness_utxo.script_pubkey # to_p2sh(Unwrap(input.redeem_script))
             script == IF input.redeem_script # None THEN Unwrap(input.redeem_script)
                       ELSE witness_utxo.script_pubkey
         IN IF mismatch
            THEN Classified("err",
                   "witness_utxo script_pubkey doesn't match the redeem script converted to p2sh",
                   NoScript)
            ELSE IF is_v0_p2wpkh(script)
            THEN IF ~is_p2pkh(to_p2pkh(script))
                 THEN Classified("err", "it is not a p2pkh script", NoScript)
                 ELSE Classified("ok", "", to_p2pkh(script))
            ELSE IF input.witness_script = None
            THEN Classified("panic", "witness_script is none", NoScript)
            ELSE IF script # to_v0_p2wsh(Unwrap(input.witness_script))
            THEN Classified("err", "script and witness script to v0 p2wsh doesn't match",
                            NoScript)
            ELSE Classified("ok", "", Unwrap(input.witness_script))

\* One iteration of sign's loop over the inputs.
SignLoopBody(input, prevout, signed_by, idx) ==
    LET c == Classify(input, prevout)
    IN IF c.status = "ok" THEN sign_input(input, signed_by, c.script, idx)
       ELSE Outcome(c.status, c.msg, input, signed_by, {})

\* ---------------------------------------------------------- bounded inputs
\* The outpoint every modelled input spends, and the transaction holding it.
PrevOut == OutPoint("prev", 0)

WsMulti == Multi({KeyIn, KeyCo})
Wutxo(script) == Some(TxOut(1000, script))
PrevTx(txid, script) == Some(Tx(txid, <<TxOut(1000, script)>>))

OurEntry == Insert(EmptyMap, KeyIn, KeySource(MyFing, PathIn))
CoEntry == Insert(EmptyMap, KeyCo, KeySource(OtherFing, PathIn))
BothEntries == Insert(OurEntry, KeyCo, KeySource(OtherFing, PathIn))

\* A signature over some other transaction.
StaleSig(key) == Signature(key, Bip143SighashAll(0, NoScript, 0), SigHashAll)

\* The signature this signer produces on the input at idx for KeyIn.
OwnSig(input, idx) ==
    sign_input([input EXCEPT !.hd_keypaths = OurEntry], {},
               Classify(input, PrevOut).script, idx).input.partial_sigs[KeyIn]

\* P2WSH inputs: the keypath and signature cases.
WshInput(sh, sigs, hd) ==
    Input(None, Wutxo(to_v0_p2wsh(WsMulti)), None, Some(WsMulti), sh, sigs, hd)

WshInputs(idx) ==
    LET bare == WshInput(None, EmptyMap, EmptyMap)
    IN {bare,
        \* signed before by this key, keypaths stripped
        [bare EXCEPT !.partial_sigs = Insert(EmptyMap, KeyIn, OwnSig(bare, idx))],
        WshInput(None, EmptyMap, BothEntries),
        \* signed by the cosigner
        WshInput(None, Insert(EmptyMap, KeyCo, StaleSig(KeyCo)), BothEntries),
        \* a different signature stored under our key
        WshInput(None, Insert(EmptyMap, KeyIn, StaleSig(KeyIn)), OurEntry),
        \* our fingerprint, our key, but not the key at the recorded path
        WshInput(None, EmptyMap, Insert(EmptyMap, KeyIn, KeySource(MyFing, PathOut))),
        \* our fingerprint on the cosigner's key
        WshInput(None, EmptyMap, Insert(EmptyMap, KeyCo, KeySource(MyFing, PathIn))),
        \* our key recorded under another fingerprint
        WshInput(None, EmptyMap, Insert(EmptyMap, KeyIn, KeySource(OtherFing, PathIn))),
        \* a valid entry of ours next to an invalid one
        WshInput(None, EmptyMap, Insert(OurEntry, KeyCo, KeySource(MyFing, PathIn))),
        \* sighash_type SINGLE
        WshInput(Some(3), EmptyMap, BothEntries)}

\* The other script shapes.
ShapeInputs ==
    {\* legacy P2PKH, with and without sighash_type
     Input(PrevTx("prev", P2pkh(KeyIn)), None, None, None, Some(SigHashAll), EmptyMap, OurEntry),
     Input(PrevTx("prev", P2pkh(KeyIn)), None, None, None, None, EmptyMap, OurEntry),
     \* non_witness_utxo is not the spent transaction
     Input(PrevTx("other", P2pkh(KeyIn)), None, None, None, Some(SigHashAll), EmptyMap, OurEntry),
     \* native P2WPKH, key inside and outside the deduction window
     Input(None, Wutxo(P2wpkh(KeyIn)), None, None, None, EmptyMap, OurEntry),
     Input(None, Wutxo(P2wpkh(KeyOut)), None, None, None, EmptyMap,
           Insert(EmptyMap, KeyOut, KeySource(MyFing, PathOut))),
     \* P2SH-wrapped P2WSH
     Input(None, Wutxo(to_p2sh(to_v0_p2wsh(WsMulti))), Some(to_v0_p2wsh(WsMulti)),
           Some(WsMulti), None, EmptyMap, BothEntries),
     \* no utxo at all
     Input(None, None, None, None, None, EmptyMap, OurEntry),
     \* P2WSH without its witness_script
     Input(None, Wutxo(to_v0_p2wsh(WsMulti)), None, None, None, EmptyMap, OurEntry)}

InputsAt(idx) == WshInputs(idx) \cup ShapeInputs

OutputsOf ==
    {\* a payment to someone else
     Output(None, None, EmptyMap),
     \* change to the multisig, with and without keypaths
     Output(None, Some(WsMulti), BothEntries),
     Output(None, Some(WsMulti), EmptyMap)}

RECURSIVE InputSeqs(_)
InputSeqs(n) ==
    IF n = 0 THEN {<<>>}
    ELSE {Append(s, t) : s \in InputSeqs(n - 1), t \in InputsAt(n)}

UnsignedTx(n) == [input |-> [k \in 1..n |-> [previous_output |-> PrevOut]]]

Psbt(tx, inputs, outputs) ==
    [global |-> [unsigned_tx |-> tx], inputs |-> inputs, outputs |-> outputs]

PSBTs ==
    {Psbt(UnsignedTx(Len(ins)), ins, <<o>>) :
        ins \in UNION {InputSeqs(n) : n \in 1..MaxInputs}, o \in OutputsOf}

\* ------------------------------------------------------------------- state
VARIABLES
    pc,             \* position in start: the next step, or how it ended
    run,            \* number of the current run of the signer
    network,        \* the network passed by the caller
    xprv_network,   \* xprv.network of the key in the key file
    psbt_file,      \* the PSBT stored in opt.psbt_file
    psbt,           \* PSBTSigner.psbt
    signed_by,      \* PSBTSigner.signed_by
    initial_inputs, \* sign's clone of the inputs
    added_paths,    \* sign's local added_paths
    i,              \* index of the next input of sign's loop
    sign_result,    \* Option<SignResult> returned by sign
    error,          \* message of the Err that ended start, "" if none
    info,           \* the messages start pushed to psbt_print.info
    saved,          \* Option<PSBT>: the content of the signed psbt.json
    pass_inputs,    \* history: the inputs when sign's loop began
    inserted,       \* history: per input, the keys a signature was inserted under
    previous        \* history: result and output PSBT of the previous run

vars == <<pc, run, network, xprv_network, psbt_file, psbt, signed_by,
          initial_inputs, added_paths, i, sign_result, error, info, saved,
          pass_inputs, inserted, previous>>

SignResult(signed, added) == [signed |-> signed, added_paths |-> added]

NoInserted(p) == [n \in DOMAIN p.inputs |-> {}]

\* The state at the entry of start for a PSBT file.
Entry(p) ==
    /\ pc = "start"
    /\ psbt_file = p
    /\ psbt = p
    /\ signed_by = {}
    /\ initial_inputs = p.inputs
    /\ added_paths = FALSE
    /\ i = 1
    /\ sign_result = None
    /\ error = ""
    /\ info = <<>>
    /\ saved = None
    /\ pass_inputs = p.inputs
    /\ inserted = NoInserted(p)

Init ==
    /\ run = 1
    /\ network \in Networks
    /\ xprv_network \in Networks
    /\ previous = None
    /\ \E p \in PSBTs : Entry(p)

\* start returns Err(msg).
Fail(msg) == pc' = "failed" /\ error' = msg

\* The gate without the regtest exception.
NetworkAcceptedStrict(net, xprv_net) == net = xprv_net

\* The network gate of PSBTSigner::new.
NetworkAccepted(net, xprv_net) ==
    LET exception == net = "regtest" /\ xprv_net = "testnet"
    IN net = xprv_net \/ exception

\* read_wallet(&opt.wallet_descriptor_file)?
ReadWallet ==
    /\ pc = "start"
    /\ \E ok \in BOOLEAN :
         IF ok THEN pc' = "from_opt" /\ error' = error
         ELSE Fail("read_wallet")
    /\ UNCHANGED <<run, network, xprv_network, psbt_file, psbt, signed_by,
                   initial_inputs, added_paths, i, sign_result, info, saved,
                   pass_inputs, inserted, previous>>

\* PSBTSigner::from_opt: read_psbt, read_psbt_json, read_key, then new.
FromOpt ==
    /\ pc = "from_opt"
    /\ \E read \in BOOLEAN :
         IF ~read THEN Fail("read")
         ELSE IF ~NetworkAccepted(network, xprv_network)
         THEN Fail("Master key network is different from the network passed through cli")
         ELSE pc' = "sign" /\ error' = error
    /\ psbt' = psbt_file
    /\ signed_by' = {}
    /\ UNCHANGED <<run, network, xprv_network, psbt_file, initial_inputs,
                   added_paths, i, sign_result, info, saved, pass_inputs,
                   inserted, previous>>

\* sign taking its clone of the inputs after the pre-pass.
SignBeginCloneAfterDeduction ==
    /\ pc = "sign"
    /\ LET d == init_hd_keypath_if_absent(psbt, Derivations)
       IN /\ initial_inputs' = d.psbt.inputs
          /\ psbt' = d.psbt
          /\ added_paths' = d.added
          /\ pass_inputs' = d.psbt.inputs
    /\ i' = 1
    /\ inserted' = NoInserted(psbt)
    /\ pc' = "loop"
    /\ UNCHANGED <<run, network, xprv_network, psbt_file, signed_by,
                   sign_result, error, info, saved, previous>>

\* sign, up to its loop: the clone of the inputs and the pre-pass.
SignBegin ==
    /\ pc = "sign"
    /\ LET d == init_hd_keypath_if_absent(psbt, Derivations)
       IN /\ initial_inputs' = psbt.inputs
          /\ psbt' = d.psbt
          /\ added_paths' = d.added
          /\ pass_inputs' = d.psbt.inputs
    /\ i' = 1
    /\ inserted' = NoInserted(psbt)
    /\ pc' = "loop"
    /\ UNCHANGED <<run, network, xprv_network, psbt_file, signed_by,
                   sign_result, error, info, saved, previous>>

\* sign, one iteration of its loop.
SignLoop ==
    /\ pc = "loop"
    /\ i <= Len(psbt.inputs)
    /\ LET o == SignLoopBody(psbt.inputs[i],
                             psbt.global.unsigned_tx.input[i].previous_output,
                             signed_by, i)
       IN /\ psbt' = [psbt EXCEPT !.inputs[i] = o.input]
          /\ signed_by' = o.signed_by
          /\ inserted' = [inserted EXCEPT ![i] = o.inserted]
          /\ CASE o.status = "ok" -> pc' = "loop" /\ i' = i + 1 /\ error' = error
               [] o.status = "err" -> Fail(o.msg) /\ i' = i
               [] OTHER -> pc' = "panic" /\ error' = o.msg /\ i' = i
    /\ UNCHANGED <<run, network, xprv_network, psbt_file, initial_inputs,
                   added_paths, sign_result, info, saved, pass_inputs, previous>>

\* sign, after its loop.
SignEnd ==
    /\ pc = "loop"
    /\ i > Len(psbt.inputs)
    /\ sign_result' = Some(SignResult(psbt.inputs # initial_inputs, added_paths))
    /\ pc' = "print"
    /\ UNCHANGED <<run, network, xprv_network, psbt_file, psbt, signed_by,
                   initial_inputs, added_paths, i, error, info, saved,
                   pass_inputs, inserted, previous>>

\* psbt_signer.pretty_print(&vec![wallet])?
PrettyPrint ==
    /\ pc = "print"
    /\ \E ok \in BOOLEAN :
         IF ok THEN pc' = "report" /\ error' = error
         ELSE Fail("pretty_print")
    /\ UNCHANGED <<run, network, xprv_network, psbt_file, psbt, signed_by,
                   initial_inputs, added_paths, i, sign_result, info, saved,
                   pass_inputs, inserted, previous>>

\* The rest of start saving the PSBT whatever the signed flag is.
ReportAlwaysSaves ==
    /\ pc = "report"
    /\ LET r == Unwrap(sign_result)
           paths == IF r.added_paths THEN <<"Added paths">> ELSE <<>>
       IN \E save \in {"ok", "dir", "qr"} :
            /\ saved' = IF save = "dir" THEN saved ELSE Some(psbt)
            /\ IF save = "ok"
               THEN /\ info' = info \o paths \o
                               <<IF r.signed THEN "Added signatures" ELSE "No signature added">>
                    /\ pc' = "done"
                    /\ error' = error
               ELSE /\ info' = info \o paths
                    /\ Fail("save_signed_psbt_file")
    /\ UNCHANGED <<run, network, xprv_network, psbt_file, psbt, signed_by,
                   initial_inputs, added_paths, i, sign_result, pass_inputs,
                   inserted, previous>>

\* The rest of start: the info messages and save_signed_psbt_file, which
\* fails before writing psbt.json, fails after it (the QR files), or succeeds.
Report ==
    /\ pc = "report"
    /\ LET r == Unwrap(sign_result)
           paths == IF r.added_paths THEN <<"Added paths">> ELSE <<>>
       IN IF r.signed
          THEN \E save \in {"ok", "dir", "qr"} :
                 /\ saved' = IF save = "dir" THEN saved ELSE Some(psbt)
                 /\ IF save = "ok"
                    THEN /\ info' = info \o paths \o <<"Added signatures">>
                         /\ pc' = "done"
                         /\ error' = error
                    ELSE /\ info' = info \o paths
                         /\ Fail("save_signed_psbt_file")
          ELSE /\ info' = info \o paths \o <<"No signature added">>
               /\ pc' = "done"
               /\ saved' = saved
               /\ error' = error
    /\ UNCHANGED <<run, network, xprv_network, psbt_file, psbt, signed_by,
                   initial_inputs, added_paths, i, sign_result, pass_inputs,
                   inserted, previous>>

\* The signer is run again, with the same key and network, on the PSBT the
\* finished run produced.
Rerun ==
    /\ pc = "done"
    /\ run < MaxRuns
    /\ run' = run + 1
    /\ previous' = Some([result |-> Unwrap(sign_result), psbt |-> psbt])
    /\ pc' = "start"
    /\ psbt_file' = psbt
    /\ psbt' = psbt
    /\ signed_by' = {}
    /\ initial_inputs' = psbt.inputs
    /\ added_paths' = FALSE
    /\ i' = 1
    /\ sign_result' = None
    /\ error' = ""
    /\ info' = <<>>
    /\ saved' = None
    /\ pass_inputs' = psbt.inputs
    /\ inserted' = NoInserted(psbt)
    /\ UNCHANGED <<network, xprv_network>>

Next ==
    \/ ReadWallet
    \/ FromOpt
    \/ SignBegin
    \/ SignLoop
    \/ SignEnd
    \/ PrettyPrint
    \/ Report
    \/ Rerun

Spec == Init /\ [][Next]_vars

\* ------------------------------------------------------------- vocabulary
NetworkMismatchMsg == "Master key network is different from the network passed through cli"
DerivedMismatchMsg == "pubkey derived and expected differs even if fingerprint matches!"

\* sign has been entered in the current run.
SignEntered ==
    \/ pc \in {"loop", "print", "report", "done", "panic"}
    \/ pc = "failed" /\ error \notin {"read_wallet", "read", NetworkMismatchMsg}

\* sign has returned an Err in the current run.
SignFailed ==
    pc = "failed" /\ error \notin {"read_wallet", "read", NetworkMismatchMsg,
                                   "pretty_print", "save_signed_psbt_file"}

\* sign has ended in the current run: Ok, Err or panic.
SignOver == sign_result # None \/ SignFailed \/ pc = "panic"

\* The hd_keypaths entry under k of input n of p carries the signer's
\* fingerprint but k is not the key at the entry's path.
Tampered(p, n, k) ==
    /\ p.inputs[n].hd_keypaths[k].fing = MyFing
    /\ k # <<"xprv", p.inputs[n].hd_keypaths[k].path[1], p.inputs[n].hd_keypaths[k].path[2]>>

TamperedEntries(p) ==
    {e \in UNION {{<<n, k>> : k \in DOMAIN p.inputs[n].hd_keypaths} : n \in DOMAIN p.inputs} :
        Tampered(p, e[1], e[2])}

\* The keys of input n of p recorded with the signer's fingerprint.
OurKeys(p, n) ==
    {k \in DOMAIN p.inputs[n].hd_keypaths : p.inputs[n].hd_keypaths[k].fing = MyFing}

\* ---------------------------------------------------------------------- C1
\* C1: PSBTSigner::new succeeds if and only if network = xprv.network, or
\* network is regtest and xprv.network is testnet; for every other pair the
\* construction fails with the network-mismatch error, before any path
\* deduction or signing step (the PSBT is untouched, sign has no result).
C1_NetworkGate ==
    [][pc = "from_opt" =>
        IF \/ network = xprv_network
           \/ network = "regtest" /\ xprv_network = "testnet"
        THEN pc' = "sign" \/ (pc' = "failed" /\ error' = "read")
        ELSE /\ pc' = "failed"
             /\ error' \in {"read", NetworkMismatchMsg}
             /\ psbt' = psbt_file
             /\ sign_result' = None
             /\ \A n \in DOMAIN inserted' : inserted'[n] = {}]_vars

\* The regtest exception has let a testnet key through.
C1_Witness == pc = "sign" /\ network = "regtest" /\ xprv_network = "testnet"

\* ---------------------------------------------------------------------- C2
\* C2 as stated, whatever the way sign fails: if an input of the PSBT has
\* an hd_keypaths entry with the signer's fingerprint whose key is not the
\* key derived along its path, sign does not return Ok, no signature is
\* inserted under that key and there is no output.
C2_AnyTamperedEntryFails ==
    TamperedEntries(psbt_file) # {} =>
        /\ sign_result = None
        /\ \A e \in TamperedEntries(psbt_file) : e[2] \notin inserted[e[1]]
        /\ saved = None

\* C2 amended: if an input still has such an entry after path deduction,
\* sign does not succeed: it stops at or before that input, with the
\* derived-pubkey-mismatch error unless an earlier check fails first (an
\* earlier input's, the input's own script checks, or "sighash empty" on an
\* earlier entry) or with a panic; no signature is inserted under that key,
\* there is no SignResult and no signed file.
C2_DerivedPubkeyGuard ==
    (SignEntered /\ TamperedEntries(psbt) # {}) =>
        /\ sign_result = None
        /\ saved = None
        /\ \A e \in TamperedEntries(psbt) : e[2] \notin inserted[e[1]] /\ i <= e[1]
        /\ SignOver =>
             /\ pc \in {"failed", "panic"}
             /\ \/ error = DerivedMismatchMsg
                \/ error = "sighash empty"
                \/ \E e \in TamperedEntries(psbt) : i < e[1]
                \/ Classify(psbt.inputs[i],
                            psbt.global.unsigned_tx.input[i].previous_output).status # "ok"

\* sign has stopped with the derived-pubkey error at the tampered input.
C2_Witness ==
    /\ pc = "failed"
    /\ error = DerivedMismatchMsg
    /\ \E e \in TamperedEntries(psbt) : e[1] = i

\* ---------------------------------------------------------------------- C3
\* What sign must leave alone in every record: the utxo, script and
\* sighash fields, the unsigned transaction, and the keys of both maps.
FieldsAndKeysKept(before, after) ==
    /\ after.global = before.global
    /\ DOMAIN after.inputs = DOMAIN before.inputs
    /\ DOMAIN after.outputs = DOMAIN before.outputs
    /\ \A n \in DOMAIN before.inputs :
         /\ after.inputs[n].non_witness_utxo = before.inputs[n].non_witness_utxo
         /\ after.inputs[n].witness_utxo = before.inputs[n].witness_utxo
         /\ after.inputs[n].redeem_script = before.inputs[n].redeem_script
         /\ after.inputs[n].witness_script = before.inputs[n].witness_script
         /\ after.inputs[n].sighash_type = before.inputs[n].sighash_type
         /\ DOMAIN before.inputs[n].partial_sigs \subseteq DOMAIN after.inputs[n].partial_sigs
         /\ DOMAIN before.inputs[n].hd_keypaths \subseteq DOMAIN after.inputs[n].hd_keypaths
    /\ \A n \in DOMAIN before.outputs :
         /\ after.outputs[n].redeem_script = before.outputs[n].redeem_script
         /\ after.outputs[n].witness_script = before.outputs[n].witness_script
         /\ DOMAIN before.outputs[n].hd_keypaths \subseteq DOMAIN after.outputs[n].hd_keypaths

\* C3 as stated: every partial_sigs entry, hd_keypaths entry and script or
\* utxo field present before the call is present with the same value
\* afterwards, and the unsigned transaction is unchanged.
C3_NothingModified ==
    /\ FieldsAndKeysKept(psbt_file, psbt)
    /\ \A n \in DOMAIN psbt_file.inputs :
         /\ \A k \in DOMAIN psbt_file.inputs[n].partial_sigs :
              psbt.inputs[n].partial_sigs[k] = psbt_file.inputs[n].partial_sigs[k]
         /\ \A k \in DOMAIN psbt_file.inputs[n].hd_keypaths :
              psbt.inputs[n].hd_keypaths[k] = psbt_file.inputs[n].hd_keypaths[k]
    /\ \A n \in DOMAIN psbt_file.outputs :
         \A k \in DOMAIN psbt_file.outputs[n].hd_keypaths :
              psbt.outputs[n].hd_keypaths[k] = psbt_file.outputs[n].hd_keypaths[k]

\* A deduced keypath: the signer's fingerprint and the path of the key.
IsDeduced(rec, k) ==
    /\ rec.hd_keypaths[k].fing = MyFing
    /\ k = <<"xprv", rec.hd_keypaths[k].path[1], rec.hd_keypaths[k].path[2]>>
    /\ rec.hd_keypaths[k].path[1] \in 0..1
    /\ rec.hd_keypaths[k].path[2] \in 0..Derivations
    /\ rec.witness_script # None

\* C3 amended: no entry is removed and no utxo, script or sighash field nor
\* the unsigned transaction is modified; the value of an existing
\* partial_sigs entry changes only under a key the signer signs for, where
\* it becomes the signer's signature, and the value of an existing
\* hd_keypaths entry changes only where the pre-pass deduces the key's path,
\* where it becomes the deduced (fingerprint, path).
C3_Additivity ==
    /\ FieldsAndKeysKept(psbt_file, psbt)
    /\ \A n \in DOMAIN psbt_file.inputs :
         /\ \A k \in DOMAIN psbt_file.inputs[n].partial_sigs :
              \/ psbt.inputs[n].partial_sigs[k] = psbt_file.inputs[n].partial_sigs[k]
              \/ k \in OurKeys(psbt, n) /\ psbt.inputs[n].partial_sigs[k].key = k
         /\ \A k \in DOMAIN psbt_file.inputs[n].hd_keypaths :
              \/ psbt.inputs[n].hd_keypaths[k] = psbt_file.inputs[n].hd_keypaths[k]
              \/ IsDeduced(psbt.inputs[n], k)
    /\ \A n \in DOMAIN psbt_file.outputs :
         \A k \in DOMAIN psbt_file.outputs[n].hd_keypaths :
              \/ psbt.outputs[n].hd_keypaths[k] = psbt_file.outputs[n].hd_keypaths[k]
              \/ IsDeduced(psbt.outputs[n], k)

\* sign has returned and an input holds a cosigner's earlier signature next
\* to a signature this call added.
C3_Witness ==
    /\ sign_result # None
    /\ \E n \in DOMAIN psbt.inputs :
         /\ \E k \in DOMAIN psbt_file.inputs[n].partial_sigs : k \notin inserted[n]
         /\ \E k \in inserted[n] : k \notin DOMAIN psbt_file.inputs[n].partial_sigs

\* ---------------------------------------------------------------------- C4
\* C4: when sign returns successfully, the keys under which the call
\* inserted a signature are, for every input, exactly the keys of its
\* hd_keypaths (after path deduction) with the signer's fingerprint; the
\* other entries get no signature, and a signature under any other key is
\* one that was there before the call.
C4_FingerprintSelectedSigning ==
    sign_result # None =>
        \A n \in DOMAIN psbt.inputs :
            /\ inserted[n] = OurKeys(psbt, n)
            /\ inserted[n] \subseteq DOMAIN psbt.inputs[n].partial_sigs
            /\ \A k \in DOMAIN psbt.inputs[n].partial_sigs \ inserted[n] :
                 /\ k \in DOMAIN psbt_file.inputs[n].partial_sigs
                 /\ psbt.inputs[n].partial_sigs[k] = psbt_file.inputs[n].partial_sigs[k]

\* sign has returned after signing an input that also lists a cosigner.
C4_Witness ==
    /\ sign_result # None
    /\ \E n \in DOMAIN psbt.inputs :
         /\ inserted[n] # {}
         /\ \E k \in DOMAIN psbt.inputs[n].hd_keypaths :
              psbt.inputs[n].hd_keypaths[k].fing # MyFing

\* ---------------------------------------------------------------------- C5
\* C5 as stated: signed is true iff some input record after the loop
\* differs from that record as it was when the loop began, after the
\* pre-pass.
C5_SignedIffLoopChangedInputs ==
    sign_result # None =>
        (Unwrap(sign_result).signed <=> psbt.inputs # pass_inputs)

\* C5 amended: signed is true iff some input record after the loop differs
\* from that record as it was when sign was called, before the PathDeducer
\* pre-pass; a keypath the pre-pass adds to an input is a change.
C5_SignedIffInputsChanged ==
    sign_result # None =>
        (Unwrap(sign_result).signed <=> psbt.inputs # psbt_file.inputs)

\* sign has returned signed = true after both the pre-pass and the loop
\* changed an input.
C5_Witness ==
    /\ sign_result # None
    /\ Unwrap(sign_result).signed
    /\ pass_inputs # psbt_file.inputs
    /\ psbt.inputs # pass_inputs

\* ---------------------------------------------------------------------- C6
\* The hd_keypaths maps of all inputs and outputs.
KeypathMaps(p) ==
    <<[n \in DOMAIN p.inputs |-> p.inputs[n].hd_keypaths],
      [n \in DOMAIN p.outputs |-> p.outputs[n].hd_keypaths]>>

\* C6: added_paths is true iff the hd_keypaths maps after the pre-pass
\* differ from the maps before it; it is false when the pre-pass finds only
\* keys already recorded with the same (fingerprint, path).
C6_AddedPathsIffMapsChanged ==
    SignEntered => (added_paths <=> KeypathMaps(psbt) # KeypathMaps(psbt_file))

\* ---------------------------------------------------------------------- C7
\* C7: after a run that returned added_paths = true, a second run on its
\* output returns added_paths = false and signed = false and leaves the
\* PSBT equal to the first output.
C7_SecondRunAddsNothing ==
    (previous # None /\ sign_result # None /\ Unwrap(previous).result.added_paths) =>
        /\ ~Unwrap(sign_result).added_paths
        /\ ~Unwrap(sign_result).signed
        /\ psbt = Unwrap(previous).psbt

\* ---------------------------------------------------------------------- C8
\* An input without any utxo, or a witness input whose script is not v0
\* P2WPKH and that has no witness_script.
MissingField(input) ==
    /\ input.non_witness_utxo = None
    /\ \/ input.witness_utxo = None
       \/ /\ input.witness_script = None
          /\ LET s == IF input.redeem_script # None THEN Unwrap(input.redeem_script)
                      ELSE Unwrap(input.witness_utxo).script_pubkey
             IN ~(s.wrap = <<>> /\ s.kind = "p2wpkh")

\* C8: when an input lacks a required field, sign ends by returning an
\* error value to its caller; it neither aborts nor returns Ok.
C8_MissingFieldIsAnError ==
    (SignOver /\ \E n \in DOMAIN psbt.inputs : MissingField(psbt.inputs[n])) => SignFailed

\* ---------------------------------------------------------------------- C9
\* C9: when sign returns an error, no input of the signer's PSBT holds a
\* partial signature that was not there before the call.
C9_NoSignatureAfterFailure ==
    SignFailed =>
        \A n \in DOMAIN psbt.inputs :
            psbt.inputs[n].partial_sigs = psbt_file.inputs[n].partial_sigs

\* --------------------------------------------------------------------- C10
\* start has ended: returned Ok, returned Err, or panicked.
StartOver == pc \in {"done", "failed", "panic"}

Messages(m) == {j \in DOMAIN info : info[j] = m}

\* What start reports when it returns Ok.
InfoReported ==
    /\ Cardinality(Messages("Added signatures") \cup Messages("No signature added")) = 1
    /\ Messages("Added signatures") # {} <=> Unwrap(sign_result).signed
    /\ Messages("Added paths") # {} <=> Unwrap(sign_result).added_paths

\* C10 as stated: the signed-PSBT file is written iff sign returned
\* successfully with signed = true, and on success the info messages are
\* reported.
C10_FileIffSigned ==
    StartOver =>
        /\ saved # None <=> (sign_result # None /\ Unwrap(sign_result).signed)
        /\ pc = "done" => InfoReported

\* C10 amended: the signed-PSBT file is written only if sign returned
\* successfully with signed = true, and it holds the signer's PSBT; when
\* start returns successfully the file is written iff signed = true,
\* exactly one of 'Added signatures' / 'No signature added' is reported and
\* 'Added paths' is reported iff added_paths.  (After a successful sign
\* with signed = true, a failure of pretty_print or of the save itself can
\* still leave no file.)
C10_FileOnlyAfterSigning ==
    /\ saved # None =>
         sign_result # None /\ Unwrap(sign_result).signed /\ saved = Some(psbt)
    /\ pc = "done" =>
         /\ saved # None <=> Unwrap(sign_result).signed
         /\ InfoReported

\* start has returned Ok after writing the file and reporting both messages.
C10_Witness ==
    /\ pc = "done"
    /\ saved # None
    /\ info = <<"Added paths", "Added signatures">>

\* ------------------------------------------- inputs of every script shape
\* One-input PSBTs over every combination of the utxo and script fields and
\* of the sighash types, each with the signer's keypath.
FormNonWitnessUtxos ==
    {None,
     PrevTx("prev", P2pkh(KeyIn)),
     PrevTx("prev", to_p2sh(WsMulti)),
     PrevTx("other", P2pkh(KeyIn)),
     \* the spent output index is beyond the transaction's outputs
     Some(Tx("prev", <<>>))}

FormWitnessUtxos ==
    {None,
     Wutxo(P2wpkh(KeyIn)),
     Wutxo(to_v0_p2wsh(WsMulti)),
     Wutxo(to_p2sh(P2wpkh(KeyIn))),
     Wutxo(to_p2sh(to_v0_p2wsh(WsMulti)))}

FormRedeemScripts == {None, Some(P2wpkh(KeyIn)), Some(to_v0_p2wsh(WsMulti)), Some(WsMulti)}

FormWitnessScripts == {None, Some(WsMulti), Some(Multi({KeyIn}))}

\* absent, ALL, SINGLE, ALL|ANYONECANPAY
FormSighashTypes == {None, Some(SigHashAll), Some(3), Some(129)}

FormInputs ==
    {Input(nw, w, rs, ws, sh, EmptyMap, OurEntry) :
        nw \in FormNonWitnessUtxos, w \in FormWitnessUtxos, rs \in FormRedeemScripts,
        ws \in FormWitnessScripts, sh \in FormSighashTypes}

FormPSBTs ==
    {Psbt(UnsignedTx(1), <<in>>, <<Output(None, None, EmptyMap)>>) : in \in FormInputs}

InitForms ==
    /\ run = 1
    /\ network \in Networks
    /\ xprv_network \in Networks
    /\ previous = None
    /\ \E p \in FormPSBTs : Entry(p)

SpecForms == InitForms /\ [][Next]_vars

\* The signatures this call inserted into input n.
InsertedSigs(n) == {psbt.inputs[n].partial_sigs[k] : k \in inserted[n]}

\* --------------------------------------------------------------------- C11
\* C11: every partial signature sign inserts ends with one flag byte, the
\* low 8 bits of the sighash type's 32-bit value: the input's sighash_type
\* when it is set, 0x01 (SIGHASH_ALL) when it is not; for the standard
\* single-byte types the byte is the type itself.
C11_SighashByte ==
    \A n \in DOMAIN psbt.inputs :
        \A sig \in InsertedSigs(n) :
            /\ sig.flag \in 0..255
            /\ IF psbt.inputs[n].sighash_type = {}
               THEN sig.flag = 1
               ELSE \E t \in psbt.inputs[n].sighash_type :
                      /\ sig.flag = t - 256 * (t \div 256)
                      /\ t \in {1, 2, 3, 129, 130, 131} => sig.flag = t

\* sign has returned after signing an input whose sighash_type is
\* ALL|ANYONECANPAY.
C11_Witness ==
    /\ sign_result # None
    /\ \E n \in DOMAIN psbt.inputs :
         /\ psbt.inputs[n].sighash_type = {129}
         /\ \E sig \in InsertedSigs(n) : sig.flag = 129

\* --------------------------------------------------------------------- C12
\* C12: an input, legacy or SegWit, holding a keypath of the signer and no
\* sighash_type is signed over a SIGHASH_ALL digest; the absent sighash_type
\* never makes sign fail.
C12_AbsentSighashDefaultsToAll ==
    /\ error # "sighash empty"
    /\ \A n \in DOMAIN psbt.inputs :
          psbt.inputs[n].sighash_type = None =>
              \A sig \in InsertedSigs(n) : sig.hash.hashtype = SigHashAll

\* --------------------------------------------------------------------- C13
\* C13: the digest of every signature sign inserts is computed under the
\* sighash type whose byte is appended to it, on legacy and SegWit v0 inputs
\* alike: no signature over a SIGHASH_ALL digest carries another type's byte.
C13_DigestUnderAppendedType ==
    \A n \in DOMAIN psbt.inputs :
        \A sig \in InsertedSigs(n) : AsU8(sig.hash.hashtype) = sig.flag

\* --------------------------------------------------------------------- C14
\* The decision table, first matching row first: what sign_input is to be
\* called with ("sign"), an error, or no row at all ("none": a field the row
\* reads is not there).
Row(status, is_witness, script) ==
    [status |-> status, is_witness |-> is_witness, script |-> script]

LegacyRow(input, prevout) ==
    LET tx == Unwrap(input.non_witness_utxo)
    IN CASE tx.txid # prevout.txid -> Row("error", FALSE, NoScript)
         [] tx.txid = prevout.txid /\ prevout.vout + 1 \notin DOMAIN tx.output ->
                Row("none", FALSE, NoScript)
         [] OTHER ->
                LET spent == tx.output[prevout.vout + 1].script_pubkey
                IN CASE input.redeem_script = None -> Row("sign", FALSE, spent)
                     [] \E rs \in input.redeem_script : spent = to_p2sh(rs) ->
                            Row("sign", FALSE, Unwrap(input.redeem_script))
                     [] OTHER -> Row("error", FALSE, NoScript)

WitnessRow(input) ==
    LET spent == Unwrap(input.witness_utxo).script_pubkey
        examined == IF input.redeem_script = None THEN spent
                    ELSE Unwrap(input.redeem_script)
    IN CASE input.redeem_script # None /\ spent # to_p2sh(examined) ->
                Row("error", TRUE, NoScript)
         [] OTHER ->
                CASE examined.wrap = <<>> /\ examined.kind = "p2wpkh" ->
                         Row("sign", TRUE, Script(<<>>, "p2pkh", examined.keys))
                  [] OTHER ->
                         CASE input.witness_script = None -> Row("none", TRUE, NoScript)
                           [] \E ws \in input.witness_script : examined = to_v0_p2wsh(ws) ->
                                  Row("sign", TRUE, Unwrap(input.witness_script))
                           [] OTHER -> Row("error", TRUE, NoScript)

TableRow(input, prevout) ==
    CASE input.non_witness_utxo # None -> LegacyRow(input, prevout)
      [] input.non_witness_utxo = None /\ input.witness_utxo # None -> WitnessRow(input)
      [] OTHER -> Row("none", FALSE, NoScript)

ScriptCheckErrors ==
    {"prevout doesn't match non_witness_utxo",
     "script_pubkey does not match the redeem script converted to p2sh",
     "witness_utxo script_pubkey doesn't match the redeem script converted to p2sh",
     "script and witness script to v0 p2wsh doesn't match"}

SignInputErrors == {"sighash empty", "witness_utxo is empty", DerivedMismatchText}

\* C14: each iteration of sign's loop treats its input by the decision
\* table. On a "sign" row sign_input runs with the row's script and
\* is_witness (every signature inserted is over that script, BIP143 exactly
\* when is_witness), and the loop moves on or stops on sign_input's own
\* error; on an "error" row sign stops with a script check error and
\* sign_input has not run; with no row sign_input has not run either. An
\* iteration touches its own input only, and each input has one iteration.
C14_DecisionTable ==
    [][(pc = "loop" /\ i <= Len(psbt.inputs)) =>
        LET row == TableRow(psbt.inputs[i],
                            psbt.global.unsigned_tx.input[i].previous_output)
            sigs == {psbt'.inputs[i].partial_sigs[k] : k \in inserted'[i]}
        IN /\ \A m \in DOMAIN psbt.inputs \ {i} :
                 inserted'[m] = inserted[m] /\ psbt'.inputs[m] = psbt.inputs[m]
           /\ CASE row.status = "sign" ->
                     /\ \A sig \in sigs : /\ sig.hash.script = row.script
                                          /\ (sig.hash.mode = "bip143") = row.is_witness
                     /\ \/ pc' = "loop" /\ i' = i + 1
                        \/ pc' = "failed" /\ i' = i /\ error' \in SignInputErrors
                     /\ \A k \in DOMAIN psbt.inputs[i].hd_keypaths :
                           (pc' = "loop" /\ psbt.inputs[i].hd_keypaths[k].fing = MyFing)
                               => k \in inserted'[i]
                [] row.status = "error" ->
                     /\ pc' = "failed" /\ i' = i /\ error' \in ScriptCheckErrors
                     /\ sigs = {} /\ psbt' = psbt
                [] OTHER ->
                     /\ pc' \notin {"loop", "print", "report", "done"} /\ i' = i
                     /\ sigs = {} /\ psbt' = psbt]_vars

\* sign has returned after signing a P2SH-P2WSH input over its witness
\* script.
C14_Witness ==
    /\ sign_result # None
    /\ \E n \in DOMAIN psbt.inputs :
         /\ psbt.inputs[n].non_witness_utxo = None
         /\ psbt.inputs[n].redeem_script # None
         /\ psbt.inputs[n].witness_script # None
         /\ \E sig \in InsertedSigs(n) :
               sig.hash.script = Unwrap(psbt.inputs[n].witness_script)

\* --------------------------------------------------------------------- C15
\* C15: whenever sign returns successfully with signed = true, the
\* partial_sigs map of at least one input differs from its value before the
\* call and signed_by holds the master fingerprint; signed_by never holds
\* anything else, and a file is only written with a fingerprint to name it.
C15_SignedMeansSignaturesChanged ==
    /\ signed_by \subseteq {MyFing}
    /\ (sign_result # None /\ Unwrap(sign_result).signed) =>
          /\ \E n \in DOMAIN psbt.inputs :
                psbt.inputs[n].partial_sigs # psbt_file.inputs[n].partial_sigs
          /\ MyFing \in signed_by
    /\ saved # None => signed_by # {}

\* C15 amended: whenever sign returns successfully with signed = true,
\* sign_input has inserted a signature into at least one input (one the
\* input may already have held, so that only its deduced hd_keypaths
\* differ from before the call) and signed_by holds the master fingerprint;
\* signed_by never holds anything else, and a file is only written with a
\* fingerprint to name it.
C15_SignedMeansSignatureInserted ==
    /\ signed_by \subseteq {MyFing}
    /\ (sign_result # None /\ Unwrap(sign_result).signed) =>
          /\ \E n \in DOMAIN psbt.inputs : inserted[n] # {}
          /\ MyFing \in signed_by
    /\ saved # None => signed_by # {}

\* The file was written after a call whose only change to the inputs is a
\* deduced keypath: the signature inserted was already there.
C15_Witness ==
    /\ saved # None
    /\ signed_by = {MyFing}
    /\ \A n \in DOMAIN psbt.inputs :
          psbt.inputs[n].partial_sigs = psbt_file.inputs[n].partial_sigs
    /\ \E n \in DOMAIN psbt.inputs :
          /\ inserted[n] # {}
          /\ psbt.inputs[n].hd_keypaths # psbt_file.inputs[n].hd_keypaths

====
